---- MODULE Spec2Model ----
(***************************************************************************)
(* rag-mcp: the token-window chunker (text_chunker.py), the vector store   *)
(* adapter (vector_store.py), the ingest and query orchestration of RAG    *)
(* (rag.py), the loops over glob matches (rag.py, rag_mcp.py, main.py) and *)
(* the tools of rag_mcp.py as coroutines on one event loop.                *)
(*                                                                         *)
(* A text is a sequence of one-character strings.  The tokenizer cuts a    *)
(* text into tokens (non-empty pieces of the text); chunk sizes and        *)
(* overlaps count tokens.                                                  *)
(***************************************************************************)
EXTENDS Integers, Sequences, FiniteSets, TLC

VARIABLES
    chunker,      \* one run of TextChunker.chunk_text: arguments, locals, position
    collection,   \* the Chroma collection: the stored records, in insertion order
    clock,        \* the wall clock read by datetime.datetime.now()
    last,         \* the most recent RAG call: arguments, what it did, how it ended
    files,        \* the file system: the paths that name something
    batch,        \* one run of a loop over glob matches: arguments, locals, position
    tasks         \* the tool invocations handed to the event loop, each with its position

vars == <<chunker, collection, clock, last, files, batch, tasks>>

----------------------------------------------------------------------------
(* Bounds of the model. *)

\* longest text handed to the chunker on its own
MaxTextLen == 5
\* largest chunk_size / chunk_overlap a caller passes
MaxChunkArg == 4
\* the most negative chunk_size / chunk_overlap a caller passes is -NegChunkArg
NegChunkArg == 2
\* longest text handed to RAG.ingest_string / read by RAG.ingest_file
MaxIngestLen == 4
\* SentenceTransformer.max_seq_length of the loaded embedding model
MaxInputTokens == 2
\* ingest calls made on one RAG instance
MaxClock == 2
\* glob patterns handed to one batch
MaxPatterns == 2
\* largest num_results a query asks for
MaxResults == 2
\* longest list handed to add_documents directly
MaxStoreLen == 2
\* tool invocations issued together
MaxTasks == 2

----------------------------------------------------------------------------
(* Python helpers. *)

\* An optional value (Optional[...]): None, or Some(x)
None == <<>>

Some(x) == <<x>>

Value(opt) == opt[1]

Min(a, b) == IF a <= b THEN a ELSE b

Max(a, b) == IF a >= b THEN a ELSE b

\* Python s[i:j] for a list s: a negative index counts from the end, both are
\* clipped to the list, and an empty range gives the empty list.
PySlice(s, i, j) ==
    LET n  == Len(s)
        lo == IF i < 0 THEN Max(i + n, 0) ELSE Min(i, n)
        hi == IF j < 0 THEN Max(j + n, 0) ELSE Min(j, n)
    IN  IF lo < hi THEN SubSeq(s, lo + 1, hi) ELSE <<>>

Chars == {"a", " "}

IsSpace(c) == c = " "

Texts(maxLen) == UNION {[1..n -> Chars] : n \in 0..maxLen}

\* str.strip() == "": the text has no character that is not whitespace
StripIsEmpty_OnlyEmpty(text) == text = <<>>

StripIsEmpty(text) == \A i \in 1..Len(text) : IsSpace(text[i])

----------------------------------------------------------------------------
(* The tokenizer (tiktoken byte-pair encoding): a word with its leading     *)
(* space is one token, any other character is a token of its own.  Decoding *)
(* concatenates the tokens' characters.                                     *)

Vocab == {<<"a">>, <<" ">>, <<" ", "a">>}

\* the length of the longest vocabulary entry that starts the text
LongestPrefix(text) ==
    CHOOSE k \in 1..Len(text) :
        /\ SubSeq(text, 1, k) \in Vocab
        /\ \A m \in (k + 1)..Len(text) : SubSeq(text, 1, m) \notin Vocab

RECURSIVE Encode(_)
Encode(text) ==
    IF text = <<>> THEN <<>>
    ELSE LET k == LongestPrefix(text)
         IN  <<SubSeq(text, 1, k)>> \o Encode(SubSeq(text, k + 1, Len(text)))

RECURSIVE Decode(_)
Decode(tokens) ==
    IF tokens = <<>> THEN <<>> ELSE Head(tokens) \o Decode(Tail(tokens))

----------------------------------------------------------------------------
(* TextChunker.chunk_text.  A run is a record: pc is the position           *)
(* ("start": entered; "loop": at the while test; "done": returned;          *)
(* "raised": left by ValueError), windows remembers for every appended      *)
(* chunk the indexes start_index, end_index and the token slice decoded.    *)

ChunkerEntry(text, chunk_size, chunk_overlap) ==
    [pc |-> "start", text |-> text, chunk_size |-> chunk_size,
     chunk_overlap |-> chunk_overlap, tokens |-> <<>>, start_index |-> 0,
     end_index |-> 0, chunks |-> <<>>, windows |-> <<>>]

\* line 33: if chunk_overlap >= chunk_size: raise ValueError
OverlapRejected_StrictlyGreater(chunk_size, chunk_overlap) == chunk_overlap > chunk_size

OverlapRejected(chunk_size, chunk_overlap) == chunk_overlap >= chunk_size

\* line 39: if not tokens: return []
NoTokens_AtMostOne(tokens) == Len(tokens) <= 1

NoTokens(tokens) == tokens = <<>>

\* line 44: end_index = min(start_index + chunk_size, len(tokens))
WindowEnd_OneMore(start_index, chunk_size, n) == Min(start_index + chunk_size + 1, n)

WindowEnd_NoClip(start_index, chunk_size, n) == start_index + chunk_size

WindowEnd(start_index, chunk_size, n) == Min(start_index + chunk_size, n)

\* line 51: start_index += chunk_size - chunk_overlap
NextStart_IgnoresOverlap(start_index, chunk_size, chunk_overlap) ==
    start_index + chunk_size

NextStart_NoAdvance(start_index, chunk_size, chunk_overlap) == start_index

NextStart(start_index, chunk_size, chunk_overlap) ==
    start_index + (chunk_size - chunk_overlap)

\* lines 33-42: the argument check, the encoding, the empty-text return
ChunkerPrologue(st) ==
    IF OverlapRejected(st.chunk_size, st.chunk_overlap)
    THEN [st EXCEPT !.pc = "raised"]
    ELSE LET tokens == Encode(st.text)
         IN  IF NoTokens(tokens)
             THEN [st EXCEPT !.pc = "done", !.tokens = tokens]
             ELSE [st EXCEPT !.pc = "loop", !.tokens = tokens, !.start_index = 0]

\* lines 43-54: the while test and one pass through the loop body
ChunkerIteration(st) ==
    LET n == Len(st.tokens)
    IN  IF ~(st.start_index < n)
        THEN [st EXCEPT !.pc = "done"]
        ELSE LET end_index    == WindowEnd(st.start_index, st.chunk_size, n)
                 chunk_tokens == PySlice(st.tokens, st.start_index, end_index)
                 appended     == [st EXCEPT
                                    !.end_index = end_index,
                                    !.chunks = Append(@, Decode(chunk_tokens)),
                                    !.windows = Append(@, [start |-> st.start_index,
                                                           end |-> end_index,
                                                           tokens |-> chunk_tokens])]
                 next_start   == NextStart(st.start_index, st.chunk_size, st.chunk_overlap)
             IN  IF end_index = n
                 THEN [appended EXCEPT !.pc = "done"]
                 ELSE IF next_start >= n - st.chunk_overlap /\ end_index = n
                      THEN [appended EXCEPT !.pc = "done", !.start_index = next_start]
                      ELSE [appended EXCEPT !.start_index = next_start]

ChunkerStep(st) ==
    IF st.pc = "start" THEN ChunkerPrologue(st) ELSE ChunkerIteration(st)

RECURSIVE ChunkerRun(_)
ChunkerRun(st) ==
    IF st.pc \in {"done", "raised"} THEN st ELSE ChunkerRun(ChunkerStep(st))

\* the whole call, as the orchestrator sees it
chunk_text(text, chunk_size, chunk_overlap) ==
    ChunkerRun(ChunkerEntry(text, chunk_size, chunk_overlap))

----------------------------------------------------------------------------
(* EmbeddingModel (embedding_model.py): embed maps a text to a vector and a  *)
(* list of texts to the list of their vectors; max_input_tokens is the      *)
(* model's max_seq_length.                                                  *)

CountOf(text, c) == Cardinality({i \in 1..Len(text) : text[i] = c})

EmbedOne(text) == <<CountOf(text, "a"), CountOf(text, " ")>>

embed(texts) == [i \in 1..Len(texts) |-> EmbedOne(texts[i])]

max_input_tokens == MaxInputTokens

\* the keyword arguments embed accepts besides texts: none (line 16-18)
EmbedKeywords == {}

\* a call embed(text, **keywords) for one text: Python raises TypeError for a
\* keyword the signature does not have
EmbedCall(text, keywords) ==
    IF keywords \subseteq EmbedKeywords
    THEN [outcome |-> "returned", vector |-> EmbedOne(text)]
    ELSE [outcome |-> "TypeError", vector |-> <<>>]

----------------------------------------------------------------------------
(* VectorStore (vector_store.py) over a Chroma collection.  A record is     *)
(* [id, document, embedding, metadata]; the collection holds at most one    *)
(* record per id.                                                           *)

\* chromadb's collection.add of ids the collection already holds: releases
\* either skip those records silently or reject the whole call
ChromaBuilds == {"skips_existing_ids", "rejects_existing_ids"}

IdsOf(coll) == {coll[i].id : i \in 1..Len(coll)}

RECURSIVE KeepNew(_, _)
KeepNew(records, held) ==
    IF records = <<>> THEN <<>>
    ELSE IF Head(records).id \in held
         THEN KeepNew(Tail(records), held)
         ELSE <<Head(records)>> \o KeepNew(Tail(records), held)

\* collection.add(documents, embeddings, metadatas, ids)
ChromaAdd(build, coll, documents, embeddings, metadatas, ids) ==
    LET records == [i \in 1..Len(ids) |->
                       [id |-> ids[i], document |-> documents[i],
                        embedding |-> embeddings[i], metadata |-> metadatas[i]]]
        clash   == \E i \in 1..Len(ids) : ids[i] \in IdsOf(coll)
        twice   == \E i, j \in 1..Len(ids) : i # j /\ ids[i] = ids[j]
    IN  IF twice \/ (clash /\ build = "rejects_existing_ids")
        THEN [outcome |-> "ChromaError", collection |-> coll]
        ELSE [outcome |-> "returned", collection |-> coll \o KeepNew(records, IdsOf(coll))]

\* line 58: ids = [f"doc_{i}" for i in range(len(documents))]
GeneratedIds(documents) == [i \in 1..Len(documents) |-> <<"doc", i - 1>>]

\* VectorStore.add_documents, lines 39-78
add_documents(build, coll, documents, embeddings, metadatas, ids) ==
    LET ids2   == IF ids = None \/ ids = Some(<<>>)
                  THEN GeneratedIds(documents) ELSE Value(ids)
        metas2 == IF metadatas = None
                  THEN [i \in 1..Len(documents) |-> None] ELSE Value(metadatas)
    IN  IF \/ Len(documents) # Len(embeddings)
           \/ Len(documents) # Len(metas2)
           \/ Len(documents) # Len(ids2)
        THEN [outcome |-> "ValueError", collection |-> coll, ids |-> ids2]
        ELSE LET added == ChromaAdd(build, coll, documents, embeddings, metas2, ids2)
             IN  [outcome |-> added.outcome, collection |-> added.collection, ids |-> ids2]

\* the squared L2 distance Chroma ranks by
Distance(u, v) == (u[1] - v[1]) * (u[1] - v[1]) + (u[2] - v[2]) * (u[2] - v[2])

\* the nearest of the records not yet ranked, the earlier stored of equals
Nearest(coll, query_embedding, open) ==
    CHOOSE i \in open : \A j \in open :
        \/ Distance(coll[i].embedding, query_embedding)
               < Distance(coll[j].embedding, query_embedding)
        \/ /\ Distance(coll[i].embedding, query_embedding)
                  = Distance(coll[j].embedding, query_embedding)
           /\ i <= j

RECURSIVE Ranked(_, _, _, _)
Ranked(coll, query_embedding, open, n) ==
    IF n = 0 \/ open = {} THEN <<>>
    ELSE LET i == Nearest(coll, query_embedding, open)
         IN  <<i>> \o Ranked(coll, query_embedding, open \ {i}, n - 1)

\* collection.query(query_embeddings=[e], n_results=n): the n nearest records,
\* nearest first, fewer when fewer are stored; n must be positive
ChromaQuery(coll, query_embedding, n_results) ==
    IF n_results <= 0 THEN [outcome |-> "ChromaError", rows |-> <<>>]
    ELSE [outcome |-> "returned",
          rows |-> Ranked(coll, query_embedding, 1..Len(coll), n_results)]

\* VectorStore.query, lines 80-111
VectorStoreQuery(coll, query_embedding, num_results) ==
    LET results == ChromaQuery(coll, query_embedding, num_results)
    IN  IF results.outcome # "returned"
        THEN [outcome |-> results.outcome, formatted_results |-> <<>>]
        ELSE [outcome |-> "returned",
              formatted_results |->
                  [k \in 1..Len(results.rows) |->
                      [document |-> coll[results.rows[k]].document,
                       metadata |-> coll[results.rows[k]].metadata,
                       distance |-> Distance(coll[results.rows[k]].embedding,
                                             query_embedding)]]]

\* VectorStore.reset, lines 113-125: delete the collection and create it anew
reset(coll) == <<>>

----------------------------------------------------------------------------
(* DocumentProcessor (document_processor.py) and the files it reads.        *)

\* a text file of four words, a text file holding one blank, a text file the
\* process may not read, a file of another type, a directory, and a path that
\* names nothing
Paths == {"notes.txt", "blank.txt", "locked.txt", "paper.pdf", "docs", "missing.txt"}

Directories == {"docs"}

Unreadable == {"locked.txt"}

\* Path.exists()
PathExists(path) == path \in files

\* Path.is_file()
IsFile_Exists(path) == path \in files

IsFile(path) == path \in files /\ path \notin Directories

Suffix(path) ==
    CASE path \in {"notes.txt", "blank.txt", "locked.txt", "missing.txt"} -> ".txt"
      [] path = "paper.pdf" -> ".pdf"
      [] OTHER -> ""

FileContent(path) ==
    CASE path = "notes.txt" -> <<"a", " ", "a", " ", "a", " ", "a">>
      [] path = "blank.txt" -> <<" ">>
      [] OTHER -> <<>>

\* extract_text, lines 11-33; open() of a file the process may not read
\* raises PermissionError
extract_text(path) ==
    IF ~PathExists(path) THEN [outcome |-> "FileNotFoundError", text |-> <<>>]
    ELSE IF Suffix(path) = ".txt"
    THEN IF path \in Unreadable
         THEN [outcome |-> "PermissionError", text |-> <<>>]
         ELSE [outcome |-> "returned", text |-> FileContent(path)]
    ELSE [outcome |-> "ValueError", text |-> <<>>]

----------------------------------------------------------------------------
(* RAG (rag.py).  Diagnostics are records [level, event, requested,         *)
(* effective]; the last two are None except in the chunk-size warning.      *)

Diag(level, event) ==
    [level |-> level, event |-> event, requested |-> None, effective |-> None]

ClampWarning(requested, effective) ==
    [level |-> "warning", event |-> "chunk_size_exceeds_max",
     requested |-> Some(requested), effective |-> Some(effective)]

\* a Python str and a Python list, told apart by their type
PyStr(chars) == [type |-> "str", chars |-> chars, items |-> <<>>]

PyList(items) == [type |-> "list", chars |-> <<>>, items |-> items]

\* ",".join(tags)
RECURSIVE JoinTags(_)
JoinTags(tags) ==
    IF tags = <<>> THEN <<>>
    ELSE IF Len(tags) = 1 THEN Head(tags)
    ELSE Head(tags) \o <<",">> \o JoinTags(Tail(tags))

\* lines 120-127: the metadata of chunk i (0-based); the key "tags" is set
\* only for a non-empty tag list
Metadata(source_name, i, current_time, tags) ==
    [source |-> source_name, chunk_index |-> i, timestamp |-> current_time,
     tags |-> IF tags = None \/ tags = Some(<<>>) THEN None
              ELSE Some(PyStr(JoinTags(Value(tags))))]

\* lines 118-127: one metadata per chunk, in chunk order
Metadatas_SkipsFirst(chunks, source_name, current_time, tags) ==
    [i \in 1..(Len(chunks) - 1) |-> Metadata(source_name, i, current_time, tags)]

Metadatas_ClockPerChunk(chunks, source_name, current_time, tags) ==
    [i \in 1..Len(chunks) |-> Metadata(source_name, i - 1, current_time + (i - 1), tags)]

Metadatas(chunks, source_name, current_time, tags) ==
    [i \in 1..Len(chunks) |-> Metadata(source_name, i - 1, current_time, tags)]

\* line 95: effective_chunk_size = min(chunk_size, model_max_tokens)
EffectiveChunkSize(chunk_size) == Min(chunk_size, max_input_tokens)

\* what a call of _process_and_ingest did, besides its outcome, the
\* collection it leaves and its diagnostics: the size handed to chunk_text
\* (None when it was not called), the windows and chunks it returned, the
\* arguments of the calls of embed and of add_documents, the ids added
Quiet(coll, log) ==
    [outcome |-> "returned", collection |-> coll, log |-> log,
     chunk_size_used |-> None, windows |-> <<>>, chunks |-> <<>>,
     embed_calls |-> <<>>, add_calls |-> <<>>, ids |-> <<>>]

\* RAG._process_and_ingest, lines 79-132
ProcessAndIngest(build, coll, now, text, source_name, chunk_size, chunk_overlap, tags) ==
    IF StripIsEmpty(text)
    THEN Quiet(coll, <<Diag("warning", "empty_text")>>)
    ELSE
    LET effective == EffectiveChunkSize(chunk_size)
        log1      == IF effective < chunk_size
                     THEN <<ClampWarning(chunk_size, effective)>> ELSE <<>>
        run       == chunk_text(text, effective, chunk_overlap)
        chunks    == run.chunks
        chunked   == [Quiet(coll, log1) EXCEPT !.chunk_size_used = Some(effective),
                                               !.windows = run.windows,
                                               !.chunks = chunks]
    IN  IF run.pc = "raised"
        THEN [chunked EXCEPT !.outcome = "ValueError"]
        ELSE IF chunks = <<>>
        THEN [chunked EXCEPT !.log = log1 \o <<Diag("warning", "no_chunks")>>]
        ELSE
        LET embeddings == embed(chunks)
            metadatas  == Metadatas(chunks, source_name, now, tags)
            added      == add_documents(build, coll, chunks, embeddings, Some(metadatas), None)
            called     == [chunked EXCEPT
                             !.embed_calls = <<chunks>>,
                             !.add_calls = <<[documents |-> chunks,
                                              embeddings |-> embeddings,
                                              metadatas |-> metadatas]>>,
                             !.ids = added.ids]
        IN  IF added.outcome # "returned"
            THEN [called EXCEPT !.outcome = added.outcome]
            ELSE [called EXCEPT !.collection = added.collection,
                                !.log = log1 \o <<Diag("info", "ingested")>>]

\* lines 143-154 and 171-180: the chunk size of a call that names none
ActualChunkSize(chunk_size) ==
    IF chunk_size # None THEN Value(chunk_size) ELSE max_input_tokens

\* RAG.ingest_string, lines 134-154
IngestStringCall(build, coll, now, text_content, chunk_size, chunk_overlap, source_name, tags) ==
    ProcessAndIngest(build, coll, now, text_content,
                     IF source_name # None /\ Value(source_name) # ""
                     THEN Value(source_name) ELSE "string_input",
                     ActualChunkSize(chunk_size), chunk_overlap, tags)

\* RAG.ingest_file, lines 156-183: a missing file and any ValueError end the
\* call with an error diagnostic; other exceptions leave it
IngestFileCall(build, coll, now, file_path, chunk_size, chunk_overlap, tags) ==
    IF ~PathExists(file_path)
    THEN Quiet(coll, <<Diag("error", "file_not_found")>>)
    ELSE
    LET read == extract_text(file_path)
        done == ProcessAndIngest(build, coll, now, read.text, file_path,
                                 ActualChunkSize(chunk_size), chunk_overlap, tags)
    IN  IF read.outcome = "ValueError"
        THEN Quiet(coll, <<Diag("error", "error_ingesting_file")>>)
        ELSE IF read.outcome # "returned"
        THEN [Quiet(coll, <<>>) EXCEPT !.outcome = read.outcome]
        ELSE IF done.outcome = "ValueError"
        THEN [done EXCEPT !.outcome = "returned",
                          !.log = @ \o <<Diag("error", "error_ingesting_file")>>]
        ELSE done

\* line 224: embed(query_text, show_progress_bar=False)
QueryKeywords == {"show_progress_bar"}

\* RAG.query, lines 221-239
QueryCall(coll, query_text, num_results) ==
    LET embedded == EmbedCall(query_text, QueryKeywords)
        found    == VectorStoreQuery(coll, embedded.vector, num_results)
    IN  IF embedded.outcome # "returned"
        THEN [outcome |-> embedded.outcome, query_results |-> <<>>]
        ELSE IF found.outcome # "returned"
        THEN [outcome |-> found.outcome, query_results |-> <<>>]
        ELSE [outcome |-> "returned",
              query_results |->
                  [i \in 1..Len(found.formatted_results) |->
                      [document |-> found.formatted_results[i].document,
                       metadata |-> found.formatted_results[i].metadata,
                       distance |-> found.formatted_results[i].distance,
                       result_number |-> i]]]

----------------------------------------------------------------------------
(* State of the orchestrator and the calls made on it. *)

NoCall == [op |-> "none"]

ChunkArgs == (0 - NegChunkArg)..MaxChunkArg

\* texts handed to ingest_string: the empty text, one blank, and the runs of
\* up to MaxIngestLen one-letter tokens
IngestTexts ==
    {t \in Texts(MaxIngestLen) : t = <<" ">> \/ \A i \in 1..Len(t) : ~IsSpace(t[i])}

\* chunk sizes from below zero to one more than the model takes, overlaps
\* from below every size to the model's maximum
IngestSizes == {None} \cup {Some(n) : n \in (0 - 1)..(max_input_tokens + 1)}

IngestOverlaps == (0 - 2)..max_input_tokens

\* what the installed chromadb may do when a call adds an id it holds
Builds(coll) == IF coll = <<>> THEN {"skips_existing_ids"} ELSE ChromaBuilds

SourceNames == {None, Some("memo")}

TagLists == {None}

ChunkerIdle == ChunkerEntry(<<>>, 1, 0)

\* the files present when the process starts
FilesAtStart == Paths \ {"missing.txt"}

NoBatch == [pc |-> "idle"]

NoTasks == <<>>

RagIdle ==
    /\ collection = <<>>
    /\ clock = 0
    /\ last = NoCall

Init ==
    /\ chunker = ChunkerIdle
    /\ RagIdle
    /\ files = FilesAtStart
    /\ batch = NoBatch
    /\ tasks = NoTasks

\* the record of a call: its arguments, the collection it found, what it did
CallRecord(op, args, did) ==
    [op |-> op, args |-> args, before |-> collection, outcome |-> did.outcome,
     log |-> did.log, chunk_size_used |-> did.chunk_size_used,
     windows |-> did.windows, chunks |-> did.chunks,
     embed_calls |-> did.embed_calls, add_calls |-> did.add_calls, ids |-> did.ids]

\* a call of RAG.ingest_string with arguments from the given sets
IngestStringWith(texts, sizes, overlaps, names, taglists) ==
    /\ clock < MaxClock
    /\ \E text \in texts, chunk_size \in sizes,
          chunk_overlap \in overlaps, source_name \in names, tags \in taglists,
          build \in Builds(collection) :
           LET did == IngestStringCall(build, collection, clock, text, chunk_size,
                                       chunk_overlap, source_name, tags)
           IN  /\ collection' = did.collection
               /\ last' = CallRecord("ingest_string",
                                     [text |-> text, chunk_size |-> chunk_size,
                                      chunk_overlap |-> chunk_overlap,
                                      source |-> source_name, tags |-> tags], did)
    /\ clock' = clock + 1
    /\ UNCHANGED <<chunker, files, batch, tasks>>

ingest_string ==
    IngestStringWith(IngestTexts, IngestSizes, IngestOverlaps, SourceNames, TagLists)

ingest_file ==
    /\ clock < MaxClock
    /\ \E file_path \in Paths, chunk_size \in IngestSizes,
          chunk_overlap \in IngestOverlaps, tags \in TagLists, build \in Builds(collection) :
           LET did == IngestFileCall(build, collection, clock, file_path,
                                     chunk_size, chunk_overlap, tags)
           IN  /\ collection' = did.collection
               /\ last' = CallRecord("ingest_file",
                                     [text |-> FileContent(file_path), chunk_size |-> chunk_size,
                                      chunk_overlap |-> chunk_overlap,
                                      source |-> Some(file_path), tags |-> tags], did)
    /\ clock' = clock + 1
    /\ UNCHANGED <<chunker, files, batch, tasks>>

reset_vector_store ==
    /\ last.op # "none"
    /\ collection' = reset(collection)
    /\ last' = CallRecord("reset_vector_store",
                          [text |-> <<>>, chunk_size |-> None, chunk_overlap |-> 0,
                           source |-> None, tags |-> None],
                          Quiet(<<>>, <<Diag("info", "reset")>>))
    /\ UNCHANGED <<chunker, clock, files, batch, tasks>>

Next == ingest_string \/ ingest_file \/ reset_vector_store

Spec == Init /\ [][Next]_vars

----------------------------------------------------------------------------
(* One call on a store that an earlier run of the program has filled: the   *)
(* Chroma client is persistent and __init__ opens the collection it finds.  *)

\* the collections an earlier run may have left: none of its own, or the
\* chunks of one text
Persisted ==
    {<<>>} \cup
    {IngestStringCall("skips_existing_ids", <<>>, 0, text, None, 0, None, None).collection :
         text \in IngestTexts}

IngestInit ==
    /\ chunker = ChunkerIdle
    /\ collection \in Persisted
    /\ clock = MaxClock - 1
    /\ last = NoCall
    /\ files = FilesAtStart
    /\ batch = NoBatch
    /\ tasks = NoTasks

SpecIngest == IngestInit /\ [][Next]_vars

----------------------------------------------------------------------------
(* Ingesting, querying and resetting on one RAG instance. *)

\* the texts ingested and asked for: one chunk, two chunks, nothing
QueryTexts == {<<"a">>, <<"a", "a", "a">>, <<>>}

\* no tags, one tag, two tags, one tag with a comma in it
QueryTagLists ==
    {None, Some(<<<<"x">>>>), Some(<<<<"x">>, <<"y">>>>), Some(<<<<"x", ",", "y">>>>)}

QueryCounts == 0..MaxResults

QueryIngest == IngestStringWith(QueryTexts, {None}, {0}, {None}, QueryTagLists)

query ==
    /\ \E query_text \in QueryTexts, num_results \in QueryCounts :
           LET did == QueryCall(collection, query_text, num_results)
           IN  last' = [op |-> "query",
                        args |-> [query_text |-> query_text, num_results |-> num_results],
                        before |-> collection, outcome |-> did.outcome,
                        query_results |-> did.query_results]
    /\ UNCHANGED <<chunker, collection, clock, files, batch, tasks>>

QueryNext == QueryIngest \/ query \/ reset_vector_store

SpecQuery == Init /\ [][QueryNext]_vars

----------------------------------------------------------------------------
(* The loops over glob matches: RAG.ingest_files (rag.py lines 185-219),    *)
(* the ingest_file tool (rag_mcp.py lines 38-67) and the ingest-file        *)
(* command (main.py lines 102-115).  A run is a record: pc is the position  *)
(* ("patterns": at the outer for; "matches": at the inner for; "ingest":    *)
(* is_file() was true, ingest_file is about to be called; "returned";       *)
(* "raised": left by an exception), matched remembers every string glob     *)
(* returned and calls every call of RAG.ingest_file, in order.              *)

Loops == {"ingest_files", "tool", "cli"}

\* the order in which the directory lists its entries
DirOrder == <<"notes.txt", "blank.txt", "locked.txt", "paper.pdf", "docs">>

Patterns == {"*.txt", "./notes.txt", "[dp]*", "missing.txt"}

\* the string glob returns for a directory entry the pattern matches
GlobName(pattern, path) ==
    CASE pattern = "*.txt" /\ Suffix(path) = ".txt" -> Some(path)
      [] pattern = "./notes.txt" /\ path = "notes.txt" -> Some("./notes.txt")
      [] pattern = "[dp]*" /\ path \in {"docs", "paper.pdf"} -> Some(path)
      [] pattern = "missing.txt" /\ path = "missing.txt" -> Some(path)
      [] OTHER -> None

RECURSIVE GlobFrom(_, _)
GlobFrom(pattern, entries) ==
    IF entries = <<>> THEN <<>>
    ELSE LET name == GlobName(pattern, Head(entries))
         IN  (IF PathExists(Head(entries)) /\ name # None THEN <<Value(name)>> ELSE <<>>)
                 \o GlobFrom(pattern, Tail(entries))

\* glob.glob(pattern): the present entries the pattern matches
glob(pattern) == GlobFrom(pattern, DirOrder)

\* str(Path(file_path_str)): a leading "./" is dropped
PathStr(file_path_str) ==
    IF file_path_str = "./notes.txt" THEN "notes.txt" ELSE file_path_str

BatchEntry(loop, file_patterns, chunk_size, chunk_overlap, tags) ==
    [pc |-> "patterns", loop |-> loop, file_patterns |-> file_patterns,
     chunk_size |-> chunk_size, chunk_overlap |-> chunk_overlap, tags |-> tags,
     pattern |-> 0, pending |-> <<>>, file_path |-> None, matched |-> <<>>,
     calls |-> <<>>, ingested_files |-> <<>>, skipped_files |-> <<>>]

\* f"{file_path} (Error: {e})" and f"{file_path} (Skipped: Not a file)"
SkippedEntry(file_path, reason, error) ==
    [path |-> file_path, reason |-> reason, error |-> error]

\* ingested_files.append(...) / skipped_files.append(...)
Recorded_AtFront(list, entry) == <<entry>> \o list

Recorded(list, entry) == Append(list, entry)

\* the try block of lines 204-211 reached its end: ingest_file did not raise
Completed_StoredChunks(did) == did.outcome = "returned" /\ did.add_calls # <<>>

Completed(did) == did.outcome = "returned"

\* the else branch of is_file(): the two lists record the path as skipped, the
\* command only warns
AfterNonFile_Unrecorded(st, file_path) == st

AfterNonFile(st, file_path) ==
    IF st.loop = "cli" THEN st
    ELSE [st EXCEPT !.skipped_files =
              Recorded(@, SkippedEntry(file_path, "Skipped: Not a file", None))]

\* for pattern in file_patterns: for file_path_str in glob.glob(pattern)
BatchNextPattern(st) ==
    IF st.pattern = Len(st.file_patterns)
    THEN [st EXCEPT !.pc = "returned"]
    ELSE LET found == glob(st.file_patterns[st.pattern + 1])
         IN  [st EXCEPT !.pc = "matches", !.pattern = @ + 1,
                        !.pending = found, !.matched = @ \o found]

\* file_path = Path(file_path_str); if file_path.is_file(): ... else: ...
BatchNextMatch(st) ==
    IF st.pending = <<>>
    THEN [st EXCEPT !.pc = "patterns"]
    ELSE LET file_path == PathStr(Head(st.pending))
             taken     == [st EXCEPT !.pending = Tail(@)]
         IN  IF IsFile(file_path)
             THEN [taken EXCEPT !.pc = "ingest", !.file_path = Some(file_path)]
             ELSE AfterNonFile(taken, file_path)

\* after the call of RAG.ingest_file: RAG.ingest_files and the tool catch every
\* exception and record the file, the command lets it pass; the tool awaits
\* the None that ingest_file returned, which raises TypeError
AfterIngestFile(st, did) ==
    LET file_path == Value(st.file_path)
        called    == [st EXCEPT !.pc = "matches", !.file_path = None,
                                !.calls = Append(@, [path |-> file_path,
                                                     outcome |-> did.outcome,
                                                     log |-> did.log])]
    IN  CASE st.loop = "ingest_files" ->
                 IF Completed(did)
                 THEN [called EXCEPT !.ingested_files = Recorded(@, file_path)]
                 ELSE [called EXCEPT !.skipped_files =
                          Recorded(@, SkippedEntry(file_path, "Error", Some(did.outcome)))]
          [] st.loop = "tool" ->
                 [called EXCEPT !.skipped_files =
                      Recorded(@, SkippedEntry(file_path, "Error",
                                   Some(IF Completed(did) THEN "TypeError" ELSE did.outcome)))]
          [] OTHER ->
                 IF Completed(did) THEN called ELSE [called EXCEPT !.pc = "raised"]

PatternLists == UNION {[1..n -> Patterns] : n \in 0..MaxPatterns}

\* chunk_size is left out; the overlaps are one the chunker accepts and one
\* it rejects
BatchOverlaps == {0, max_input_tokens}

BatchInit ==
    /\ chunker = ChunkerIdle
    /\ RagIdle
    /\ files = FilesAtStart
    /\ \E loop \in Loops, file_patterns \in PatternLists, chunk_overlap \in BatchOverlaps :
           batch = BatchEntry(loop, file_patterns, None, chunk_overlap, None)
    /\ tasks = NoTasks

BatchPattern ==
    /\ batch.pc = "patterns"
    /\ batch' = BatchNextPattern(batch)
    /\ UNCHANGED <<chunker, collection, clock, last, files, tasks>>

BatchMatch ==
    /\ batch.pc = "matches"
    /\ batch' = BatchNextMatch(batch)
    /\ UNCHANGED <<chunker, collection, clock, last, files, tasks>>

BatchIngestFile ==
    /\ batch.pc = "ingest"
    /\ \E build \in Builds(collection) :
           LET did == IngestFileCall(build, collection, clock, Value(batch.file_path),
                                     batch.chunk_size, batch.chunk_overlap, batch.tags)
           IN  /\ collection' = did.collection
               /\ last' = CallRecord("ingest_file",
                                     [text |-> FileContent(Value(batch.file_path)),
                                      chunk_size |-> batch.chunk_size,
                                      chunk_overlap |-> batch.chunk_overlap,
                                      source |-> batch.file_path, tags |-> batch.tags], did)
               /\ batch' = AfterIngestFile(batch, did)
    /\ clock' = Min(clock + 1, MaxClock)
    /\ UNCHANGED <<chunker, files, tasks>>

\* another process removes a file while the loop runs
FileRemoved ==
    /\ batch.pc \in {"matches", "ingest"}
    /\ \E path \in files \ Directories : files' = files \ {path}
    /\ UNCHANGED <<chunker, collection, clock, last, batch, tasks>>

BatchNext == BatchPattern \/ BatchMatch \/ BatchIngestFile \/ FileRemoved

SpecBatch == BatchInit /\ [][BatchNext]_vars

----------------------------------------------------------------------------
(* Properties of the ingest calls, stated on the record of the last call. *)

IsIngest == last.op \in {"ingest_string", "ingest_file"}

\* the call reached TextChunker.chunk_text
Chunked == IsIngest /\ last.chunk_size_used # None

\* the call reached VectorStore.add_documents
Stored == IsIngest /\ last.add_calls # <<>>

Distinct(seq) == \A i, j \in 1..Len(seq) : i # j => seq[i] # seq[j]

\* C1: for every requested chunk_size, an omitted one too, the chunk_size
\* handed to chunk_text is min(requested, max_input_tokens), which is
\* max_input_tokens when it is omitted; hence no chunk handed to the
\* embedding model spans more than max_input_tokens tokens.
C1_ChunksWithinModelLimit ==
    Chunked =>
        /\ Value(last.chunk_size_used) <= max_input_tokens
        /\ Value(last.chunk_size_used) =
               IF last.args.chunk_size = None THEN max_input_tokens
               ELSE Min(Value(last.args.chunk_size), max_input_tokens)
        /\ \A c \in 1..Len(last.embed_calls) :
               /\ Len(last.embed_calls[c]) = Len(last.windows)
               /\ \A k \in 1..Len(last.windows) :
                      /\ last.embed_calls[c][k] = Decode(last.windows[k].tokens)
                      /\ Len(last.windows[k].tokens) <= max_input_tokens

\* C2: the ids generated for an add_documents call without ids are distinct
\* from each other and from every id the collection holds already, and no two
\* stored records share an id.
C2_GeneratedIdsFresh ==
    /\ Distinct([i \in 1..Len(collection) |-> collection[i].id])
    /\ Stored =>
           /\ Distinct(last.ids)
           /\ \A i \in 1..Len(last.ids) : last.ids[i] \notin IdsOf(last.before)

\* C3: an ingest call that succeeds leaves the records of earlier calls in
\* place and unchanged and adds one record per chunk, so the collection's size
\* is the sum of the chunk counts of the calls since the last reset, also when a
\* source is ingested again.
C3_EveryChunkStored ==
    (IsIngest /\ last.outcome = "returned") =>
        /\ Len(collection) = Len(last.before) + Len(last.chunks)
        /\ SubSeq(collection, 1, Len(last.before)) = last.before
        /\ \A k \in 1..Len(last.chunks) :
               collection[Len(last.before) + k].document = last.chunks[k]

\* C10: a call whose chunk_size exceeds max_input_tokens, with a text that is
\* not blank and a chunk_overlap below the requested chunk_size, does not
\* fail: it warns with the requested and the effective size, chunks with the
\* clamped size and persists at least one chunk.
C10_OversizeNeverFails ==
    ( /\ IsIngest
      /\ last.args.chunk_size # None
      /\ Value(last.args.chunk_size) > max_input_tokens
      /\ ~StripIsEmpty(last.args.text)
      /\ last.args.chunk_overlap < Value(last.args.chunk_size) ) =>
        /\ last.outcome = "returned"
        /\ \E d \in 1..Len(last.log) :
               last.log[d] = ClampWarning(Value(last.args.chunk_size), max_input_tokens)
        /\ \A d \in 1..Len(last.log) : last.log[d].level # "error"
        /\ last.chunk_size_used = Some(max_input_tokens)
        /\ Len(collection) > Len(last.before)

\* C11: an ingest call whose chunk_overlap is at least the chunk size in
\* effect (the requested or default size, clamped to max_input_tokens) ends
\* with the invalid-argument error, whatever the text: neither ingest_string
\* nor ingest_file returns from it.
C11_OverlapFailsFast ==
    ( /\ IsIngest
      /\ last.args.chunk_overlap >=
             EffectiveChunkSize(ActualChunkSize(last.args.chunk_size)) ) =>
        last.outcome = "ValueError"

\* the text has no character but blanks, stated without str.strip()
Blank(text) == \A i \in 1..Len(text) : text[i] = " "

\* the text the call works on is blank: the argument of ingest_string, or what
\* extract_text returned for the path of ingest_file
BlankInput ==
    IF last.op = "ingest_string" THEN Blank(last.args.text)
    ELSE LET read == extract_text(Value(last.args.source))
         IN  read.outcome = "returned" /\ Blank(read.text)

\* chunk_text returned, with no chunk
ZeroChunks ==
    /\ Chunked
    /\ LET run == chunk_text(last.args.text, Value(last.chunk_size_used),
                             last.args.chunk_overlap)
       IN  run.pc = "done" /\ run.chunks = <<>>

\* C18: for a blank text (the empty one too), and whenever chunk_text returns
\* no chunk, ingest_string and ingest_file return without an error, call
\* neither embed nor add_documents and leave the collection as it was.
C18_BlankIsNoOp ==
    (IsIngest /\ (BlankInput \/ ZeroChunks)) =>
        /\ last.outcome = "returned"
        /\ \A d \in 1..Len(last.log) : last.log[d].level # "error"
        /\ last.embed_calls = <<>>
        /\ last.add_calls = <<>>
        /\ collection = last.before

C18_Witness ==
    /\ last.op = "ingest_file"
    /\ last.args.source = Some("blank.txt")
    /\ last.outcome = "returned"
    /\ last.before # <<>>
    /\ collection = last.before

\* the source name a call resolves: the path, the given name, or "string_input"
ResolvedSource ==
    IF last.op = "ingest_file" THEN Value(last.args.source)
    ELSE IF last.args.source # None /\ Value(last.args.source) # ""
         THEN Value(last.args.source) ELSE "string_input"

\* the records the last call added to the collection
NewRecords == SubSeq(collection, Len(last.before) + 1, Len(collection))

\* C19: the n records an ingest call stores carry the chunk_index values
\* 0..n-1 in order, the record with chunk_index i holds the i-th chunk of the
\* chunker, and each carries the source name of the call.
C19_ContiguousIndexes ==
    (IsIngest /\ last.outcome = "returned" /\ Len(collection) > Len(last.before)) =>
        \A i \in 0..(Len(NewRecords) - 1) :
            /\ NewRecords[i + 1].metadata.chunk_index = i
            /\ NewRecords[i + 1].document = last.chunks[i + 1]
            /\ NewRecords[i + 1].metadata.source = ResolvedSource

\* C20: an ingest call whose chunker returns at least one chunk makes one
\* embed call, over all chunks, and then one add_documents call with the
\* chunks, the vectors of that embed call and as many metadatas; the call does
\* not end with the store's length-mismatch error, raised or logged.
C20_OneBatchSameLengths ==
    (IsIngest /\ last.chunks # <<>>) =>
        /\ Len(last.embed_calls) = 1
        /\ last.embed_calls[1] = last.chunks
        /\ Len(last.add_calls) = 1
        /\ last.add_calls[1].documents = last.chunks
        /\ last.add_calls[1].embeddings = embed(last.embed_calls[1])
        /\ Len(last.add_calls[1].embeddings) = Len(last.chunks)
        /\ Len(last.add_calls[1].metadatas) = Len(last.chunks)
        /\ last.outcome # "ValueError"
        /\ \A d \in 1..Len(last.log) : last.log[d].level # "error"

C20_Witness ==
    /\ Stored
    /\ last.outcome = "returned"
    /\ Len(last.chunks) = 2
    /\ Len(last.add_calls[1].metadatas) = 2
    /\ last.before # <<>>

\* C21: the records one ingest call stores all carry one timestamp, the
\* clock value read once in the call; so do the metadatas it hands to
\* add_documents.
C21_SharedTimestamp ==
    Stored =>
        /\ \A i \in 1..Len(last.add_calls[1].metadatas) :
               last.add_calls[1].metadatas[i].timestamp = clock - 1
        /\ last.outcome = "returned" =>
               \A i \in 1..Len(NewRecords) : NewRecords[i].metadata.timestamp = clock - 1

C21_Witness ==
    /\ Stored
    /\ last.outcome = "returned"
    /\ last.before # <<>>
    /\ Len(NewRecords) >= 2
    /\ NewRecords[1].metadata.timestamp = NewRecords[2].metadata.timestamp
    /\ NewRecords[1].metadata.timestamp # last.before[1].metadata.timestamp

----------------------------------------------------------------------------
(* The chunker on its own: every text and every pair of integer arguments,  *)
(* one step of chunk_text at a time.                                        *)

ChunkerInit ==
    /\ \E text \in Texts(MaxTextLen), chunk_size \in ChunkArgs, chunk_overlap \in ChunkArgs :
           chunker = ChunkerEntry(text, chunk_size, chunk_overlap)
    /\ RagIdle
    /\ files = FilesAtStart
    /\ batch = NoBatch
    /\ tasks = NoTasks

ChunkerCheckArgs ==
    /\ chunker.pc = "start"
    /\ chunker' = ChunkerPrologue(chunker)
    /\ UNCHANGED <<collection, clock, last, files, batch, tasks>>

ChunkerLoop ==
    /\ chunker.pc = "loop"
    /\ chunker' = ChunkerIteration(chunker)
    /\ UNCHANGED <<collection, clock, last, files, batch, tasks>>

ChunkerNext == ChunkerCheckArgs \/ ChunkerLoop

SpecChunker == ChunkerInit /\ [][ChunkerNext]_vars

\* the loop is not stopped from outside: an iteration that can run does run
SpecChunkerFair == SpecChunker /\ WF_vars(ChunkerLoop)

----------------------------------------------------------------------------
(* Properties of TextChunker.chunk_text, stated on a finished run. *)

Returned == chunker.pc = "done"

Raised == chunker.pc = "raised"

\* the arguments the properties of section 8 quantify over
ValidArgs == chunker.chunk_size > chunker.chunk_overlap /\ chunker.chunk_overlap >= 0

TokenCount == Len(chunker.tokens)

Stride == chunker.chunk_size - chunker.chunk_overlap

\* the 0-based token positions a window covers
Covered(w) == {t \in 0..(TokenCount - 1) : w.start <= t /\ t < w.end}

\* the chunks whose window contains token position t
ChunksWith(t) == {k \in 1..Len(chunker.windows) : t \in Covered(chunker.windows[k])}

\* token position t lies in the last chunk_overlap tokens of a chunk that has
\* a successor: the region the two chunks are meant to share
InOverlapRegion(t) ==
    \E k \in 1..(Len(chunker.windows) - 1) :
        /\ chunker.windows[k].end - chunker.chunk_overlap <= t
        /\ t < chunker.windows[k].end

\* window k (1-based) without the tokens it shares with its predecessor
FreshTokens(k) ==
    IF k = 1 THEN chunker.windows[1].tokens
    ELSE LET w      == chunker.windows[k]
             shared == Max(0, Min(chunker.windows[k - 1].end, w.end) - w.start)
         IN  SubSeq(w.tokens, Min(shared, Len(w.tokens)) + 1, Len(w.tokens))

RECURSIVE Reconstructed(_)
Reconstructed(k) ==
    IF k = 0 THEN <<>> ELSE Reconstructed(k - 1) \o FreshTokens(k)

\* C4: with chunk_size > chunk_overlap >= 0 and a text of n >= 1 tokens, every
\* chunk is the decoding of a token window of at most chunk_size tokens, and
\* the last window ends at token index n (the unpadded remainder).
C4_WindowsBounded ==
    (Returned /\ ValidArgs /\ TokenCount >= 1) =>
        /\ Len(chunker.windows) >= 1
        /\ Len(chunker.chunks) = Len(chunker.windows)
        /\ \A k \in 1..Len(chunker.windows) :
               LET w == chunker.windows[k]
               IN  /\ 0 <= w.start /\ w.start < w.end /\ w.end <= TokenCount
                   /\ w.end - w.start <= chunker.chunk_size
                   /\ w.tokens = SubSeq(chunker.tokens, w.start + 1, w.end)
                   /\ chunker.chunks[k] = Decode(w.tokens)
        /\ chunker.windows[Len(chunker.windows)].end = TokenCount

C4_Witness ==
    /\ Returned /\ ValidArgs
    /\ TokenCount = 5 /\ chunker.chunk_size = 3 /\ chunker.chunk_overlap = 1
    /\ Len(chunker.windows) = 2
    /\ Len(chunker.windows[2].tokens) = 3

\* C5: for every text and every chunk_overlap < chunk_size, the first window
\* followed by each later window without the tokens it shares with its
\* predecessor is the text's token sequence.
C5_Lossless ==
    (Returned /\ chunker.chunk_overlap < chunker.chunk_size) =>
        Reconstructed(Len(chunker.windows)) = Encode(chunker.text)

\* C6 as stated: with chunk_size > chunk_overlap >= 0, a token outside the
\* overlap regions is in exactly one chunk and a token inside one is in exactly
\* two chunks, which are consecutive.
C6_Original ==
    (Returned /\ ValidArgs) =>
        \A t \in 0..(TokenCount - 1) :
            IF InOverlapRegion(t)
            THEN \E k \in 1..(Len(chunker.windows) - 1) : ChunksWith(t) = {k, k + 1}
            ELSE Cardinality(ChunksWith(t)) = 1

\* C6 as amended: the same, for chunk_size >= 2 * chunk_overlap >= 0 (with a
\* larger overlap a token lies in three or more consecutive chunks).
C6_Amended ==
    (Returned /\ ValidArgs /\ 2 * chunker.chunk_overlap <= chunker.chunk_size) =>
        \A t \in 0..(TokenCount - 1) :
            IF InOverlapRegion(t)
            THEN \E k \in 1..(Len(chunker.windows) - 1) : ChunksWith(t) = {k, k + 1}
            ELSE Cardinality(ChunksWith(t)) = 1

C6_Witness ==
    /\ Returned /\ ValidArgs
    /\ chunker.chunk_size = 2 /\ chunker.chunk_overlap = 1
    /\ Len(chunker.windows) = 4
    /\ InOverlapRegion(3) /\ ChunksWith(3) = {3, 4}
    /\ ~InOverlapRegion(0) /\ ChunksWith(0) = {1}

\* the chunk count of the reference sliding window
ReferenceCount(n, chunk_size, chunk_overlap) ==
    IF n <= chunk_size THEN 1
    ELSE ((n - chunk_size) + (chunk_size - chunk_overlap) - 1)
             \div (chunk_size - chunk_overlap) + 1

\* C7: with chunk_size > chunk_overlap >= 0 and n >= 1 tokens, chunk k
\* (0-based) is the decoding of tokens [k*stride, min(k*stride + chunk_size, n))
\* and there are 1 (n <= chunk_size) or ceil((n - chunk_size)/stride) + 1 chunks.
C7_ReferenceWindows ==
    (Returned /\ ValidArgs /\ TokenCount >= 1) =>
        /\ chunker.tokens = Encode(chunker.text)
        /\ Len(chunker.chunks) =
               ReferenceCount(TokenCount, chunker.chunk_size, chunker.chunk_overlap)
        /\ \A k \in 0..(Len(chunker.chunks) - 1) :
               chunker.chunks[k + 1] =
                   Decode(SubSeq(chunker.tokens, k * Stride + 1,
                                 Min(k * Stride + chunker.chunk_size, TokenCount)))

C7_Witness ==
    /\ Returned /\ ValidArgs
    /\ TokenCount = 5 /\ chunker.chunk_size = 3 /\ chunker.chunk_overlap = 2
    /\ Len(chunker.chunks) = 3
    /\ chunker.chunks[3] = Decode(SubSeq(chunker.tokens, 3, 5))

\* C8: chunk_text raises ValueError whenever chunk_overlap >= chunk_size, equal
\* or larger, for every text (the empty one too), and produces no chunk.
C8_OverlapRaises ==
    (chunker.pc # "start" /\ chunker.chunk_overlap >= chunker.chunk_size) =>
        /\ Raised
        /\ chunker.chunks = <<>>

C8_Witness ==
    /\ Raised
    /\ chunker.chunk_overlap = chunker.chunk_size
    /\ chunker.text = <<>>

\* C9: with chunk_size > chunk_overlap >= 0, chunk_text returns the empty
\* sequence exactly when the text has zero tokens: no error for a zero-token
\* text, at least one chunk for any other.
C9_EmptyIffNoTokens ==
    (chunker.pc \in {"done", "raised"} /\ ValidArgs) =>
        /\ Returned
        /\ (chunker.chunks = <<>>) <=> (Encode(chunker.text) = <<>>)

C9_Witness ==
    /\ Returned /\ ValidArgs
    /\ chunker.text = <<>>
    /\ chunker.chunks = <<>>

----------------------------------------------------------------------------
(* Properties of the loops over glob matches, stated on a run. *)

\* a run of RAG.ingest_files
InFiles == batch.pc # "idle" /\ batch.loop = "ingest_files"

BatchReturned == batch.pc = "returned"

SkippedPaths == [j \in 1..Len(batch.skipped_files) |-> batch.skipped_files[j].path]

\* the paths glob returned, as Path writes them
MatchedPaths == [j \in 1..Len(batch.matched) |-> PathStr(batch.matched[j])]

\* the call of ingest_file met an error: it raised, or it logged one and returned
Failed(call) ==
    \/ call.outcome # "returned"
    \/ \E d \in 1..Len(call.log) : call.log[d].level = "error"

\* C12: in RAG.ingest_files every matched regular file whose extraction or
\* processing fails (unsupported type, file gone, chunker, embedding or store
\* error) is in the skipped list with the error text and not in the ingested
\* list.
C12_FailuresSkipped ==
    (InFiles /\ BatchReturned) =>
        \A k \in 1..Len(batch.calls) :
            Failed(batch.calls[k]) =>
                /\ \E j \in 1..Len(batch.skipped_files) :
                       /\ batch.skipped_files[j].path = batch.calls[k].path
                       /\ batch.skipped_files[j].reason = "Error"
                       /\ batch.skipped_files[j].error # None
                /\ \A j \in 1..Len(batch.ingested_files) :
                       batch.ingested_files[j] # batch.calls[k].path

\* a match the loop has not visited: one left of the current pattern, or one
\* of a later pattern
Unattempted ==
    \/ batch.pending # <<>>
    \/ \E q \in (batch.pattern + 1)..Len(batch.file_patterns) :
           glob(batch.file_patterns[q]) # <<>>

\* C13: in each of the three loops a file whose ingestion raises does not end
\* the loop: when the loop is left, by return or by an exception, no match of
\* the current pattern or of a later one is left unvisited.
C13_BatchNeverAborts ==
    (batch.pc \in {"returned", "raised"}) => ~Unattempted

\* C14 as stated: when RAG.ingest_files returns, every matched path is in
\* exactly one of the two lists, once per match, and a path that was not
\* matched is in neither.
C14_Original ==
    (InFiles /\ BatchReturned) =>
        \A path \in Paths :
            LET m == CountOf(MatchedPaths, path)
                i == CountOf(batch.ingested_files, path)
                k == CountOf(SkippedPaths, path)
            IN  (i = m /\ k = 0) \/ (k = m /\ i = 0)

\* C14 as amended: when RAG.ingest_files returns, every match has exactly one
\* entry, in one of the two lists (the entries of a path matched more than
\* once may lie in different lists), and a path that was not matched is in
\* neither.
C14_Amended ==
    (InFiles /\ BatchReturned) =>
        /\ Len(batch.ingested_files) + Len(batch.skipped_files) = Len(batch.matched)
        /\ \A path \in Paths :
               CountOf(batch.ingested_files, path) + CountOf(SkippedPaths, path)
                   = CountOf(MatchedPaths, path)

C14_Witness ==
    /\ InFiles /\ BatchReturned
    /\ CountOf(MatchedPaths, "notes.txt") = 2
    /\ CountOf(batch.ingested_files, "notes.txt") = 1
    /\ CountOf(SkippedPaths, "notes.txt") = 1
    /\ CountOf(MatchedPaths, "paper.pdf") = 0

\* the path names no regular file: nothing, or a directory
NotRegular(path) == path \notin files \/ path \in Directories

\* C15: in RAG.ingest_files a matched path that is not a regular file is
\* appended to the skipped list with the not-a-file reason, and ingest_file is
\* not called for it.
C15_NonFileSkipped ==
    [][ ( /\ InFiles
          /\ batch.pc = "matches"
          /\ batch.pending # <<>>
          /\ batch' # batch
          /\ NotRegular(PathStr(Head(batch.pending))) ) =>
            /\ batch'.pc = "matches"
            /\ batch'.calls = batch.calls
            /\ batch'.ingested_files = batch.ingested_files
            /\ batch'.skipped_files =
                   Append(batch.skipped_files,
                          SkippedEntry(PathStr(Head(batch.pending)),
                                       "Skipped: Not a file", None)) ]_vars

C15_Witness ==
    /\ InFiles /\ BatchReturned
    /\ \E j \in 1..Len(batch.skipped_files) :
           batch.skipped_files[j] = SkippedEntry("docs", "Skipped: Not a file", None)
    /\ \A k \in 1..Len(batch.calls) : batch.calls[k].path # "docs"
    /\ batch.calls # <<>>

\* the paths of the calls of ingest_file that returned, in call order
RECURSIVE ReturnedPaths(_)
ReturnedPaths(calls) ==
    IF calls = <<>> THEN <<>>
    ELSE (IF Head(calls).outcome = "returned" THEN <<Head(calls).path>> ELSE <<>>)
             \o ReturnedPaths(Tail(calls))

\* C16: in RAG.ingest_files every regular file whose ingest_file call returns
\* is in the ingested list, a blank file that stores no chunk too.
C16_CompletedIngested ==
    InFiles => batch.ingested_files = ReturnedPaths(batch.calls)

C16_Witness ==
    /\ InFiles /\ BatchReturned
    /\ \E j \in 1..Len(batch.ingested_files) : batch.ingested_files[j] = "blank.txt"
    /\ \A r \in 1..Len(collection) : collection[r].metadata.source # "blank.txt"
    /\ collection # <<>>

\* c is a merge of a and b that keeps the order of each
RECURSIVE Interleaved(_, _, _)
Interleaved(a, b, c) ==
    IF c = <<>> THEN a = <<>> /\ b = <<>>
    ELSE \/ a # <<>> /\ Head(a) = Head(c) /\ Interleaved(Tail(a), b, Tail(c))
         \/ b # <<>> /\ Head(b) = Head(c) /\ Interleaved(a, Tail(b), Tail(c))

\* the matches the loop has dealt with: all but those pending and the one
\* ingest_file is about to be called for
Dealt ==
    Len(batch.matched) - Len(batch.pending) - (IF batch.pc = "ingest" THEN 1 ELSE 0)

\* C17: RAG.ingest_files deals with one match at a time, in the order of the
\* patterns and of the matches of a pattern: at every moment the two lists
\* together hold one entry for each match dealt with, each list in that order.
C17_ProcessingOrder ==
    InFiles =>
        /\ Len(batch.ingested_files) + Len(batch.skipped_files) = Dealt
        /\ Interleaved(batch.ingested_files, SkippedPaths, SubSeq(MatchedPaths, 1, Dealt))

C17_Witness ==
    /\ InFiles /\ BatchReturned
    /\ batch.file_patterns = <<"[dp]*", "*.txt">>
    /\ batch.ingested_files = <<"paper.pdf", "notes.txt", "blank.txt">>
    /\ SkippedPaths = <<"docs", "locked.txt">>

\* C30: chunk_text terminates for every text and all integers chunk_size
\* and chunk_overlap, non-positive sizes and negative overlaps included: the
\* call raises or returns, the cursor grows in every iteration that does not
\* leave the loop, and the loop makes at most one window per token.  A call
\* that does not reach the loop has raised or returned the empty list.
C30_Terminates ==
    /\ (chunker.pc = "loop") ~> (chunker.pc = "done")
    /\ [](Len(chunker.windows) <= TokenCount)
    /\ [][(chunker.pc = "loop" /\ chunker'.pc = "loop") =>
              chunker'.start_index > chunker.start_index]_vars

\* a run with a size of zero and a negative overlap that made one window per
\* token and returned
C30_Witness ==
    /\ chunker.pc = "done"
    /\ chunker.chunk_size <= 0
    /\ chunker.chunk_overlap < 0
    /\ TokenCount >= 2
    /\ Len(chunker.windows) = TokenCount

InTool == batch.pc # "idle" /\ batch.loop = "tool"

\* the pattern is a plain path and no such file exists
NamesNoFile(pattern) == pattern = "missing.txt" /\ ~PathExists(pattern)

\* C27: a path given to the ingest_file tool or to RAG.ingest_files that
\* names no existing file is listed as skipped with the reason 'Skipped: Not
\* a file', and ingest_file is not called for it.
C27_MissingPathReported ==
    ((InFiles \/ InTool) /\ BatchReturned) =>
        \A q \in 1..Len(batch.file_patterns) :
            NamesNoFile(batch.file_patterns[q]) =>
                /\ \E j \in 1..Len(batch.skipped_files) :
                       /\ batch.skipped_files[j].path = batch.file_patterns[q]
                       /\ batch.skipped_files[j].reason = "Skipped: Not a file"
                /\ \A k \in 1..Len(batch.calls) :
                       batch.calls[k].path # batch.file_patterns[q]

\* the skipped entries that carry an error text, as paths
RECURSIVE ErrorPaths(_)
ErrorPaths(skipped) ==
    IF skipped = <<>> THEN <<>>
    ELSE (IF Head(skipped).reason = "Error" THEN <<Head(skipped).path>> ELSE <<>>)
             \o ErrorPaths(Tail(skipped))

RECURSIVE RaisedPaths(_)
RaisedPaths(calls) ==
    IF calls = <<>> THEN <<>>
    ELSE (IF Head(calls).outcome # "returned" THEN <<Head(calls).path>> ELSE <<>>)
             \o RaisedPaths(Tail(calls))

\* C28: in the ingest_file tool a file is reported as ingested exactly when
\* its call of RAG.ingest_file completed without raising, and as skipped
\* with the error text otherwise.
C28_ToolReportsOutcome ==
    (InTool /\ BatchReturned) =>
        /\ batch.ingested_files = ReturnedPaths(batch.calls)
        /\ ErrorPaths(batch.skipped_files) = RaisedPaths(batch.calls)

----------------------------------------------------------------------------
(* VectorStore.add_documents called directly, with lists of any lengths. *)

\* lists of n equal entries, n from lo to MaxStoreLen
ListsOf(lo, entry) == {[i \in 1..n |-> entry] : n \in lo..MaxStoreLen}

StoreDocuments == ListsOf(1, <<"a">>)

StoreEmbeddings == ListsOf(0, EmbedOne(<<"a">>))

StoreMetadatas == {None} \cup {Some(m) : m \in ListsOf(0, None)}

\* no ids, an empty list of ids, one id, two ids
StoreIds ==
    {None, Some(<<>>), Some(<<<<"doc", 0>>>>), Some(<<<<"id", 0>>>>),
     Some(<<<<"id", 0>>, <<"id", 1>>>>)}

store_add ==
    /\ clock < MaxClock
    /\ \E documents \in StoreDocuments, embeddings \in StoreEmbeddings,
          metadatas \in StoreMetadatas, ids \in StoreIds, build \in ChromaBuilds :
           LET did == add_documents(build, collection, documents, embeddings,
                                    metadatas, ids)
           IN  /\ collection' = did.collection
               /\ last' = [op |-> "add_documents",
                           args |-> [documents |-> documents, embeddings |-> embeddings,
                                     metadatas |-> metadatas, ids |-> ids],
                           before |-> collection, outcome |-> did.outcome]
    /\ clock' = clock + 1
    /\ UNCHANGED <<chunker, files, batch, tasks>>

SpecStore == Init /\ [][store_add]_vars

\* the lengths of the lists the call was given disagree
GivenLengths ==
    {Len(last.args.documents), Len(last.args.embeddings)}
        \cup (IF last.args.metadatas = None THEN {} ELSE {Len(Value(last.args.metadatas))})
        \cup (IF last.args.ids = None THEN {} ELSE {Len(Value(last.args.ids))})

\* C26: add_documents raises ValueError whenever the lengths of the
\* documents, embeddings, metadatas and ids it is given disagree, and then
\* the collection is unchanged.
C26_LengthMismatchRaises ==
    (last.op = "add_documents" /\ Cardinality(GivenLengths) > 1) =>
        /\ last.outcome = "ValueError"
        /\ collection = last.before

----------------------------------------------------------------------------
(* Claims about the query path and the reset. *)

IsQuery == last.op = "query"

\* the tags of every stored record, as the call before the query gave them
TagsOfResults(results) == {results[i].metadata.tags : i \in 1..Len(results)}

\* C22: chunks ingested with a list of tags come back from RAG.query with
\* metadata tags equal to that list, as an ordered list of strings, whatever
\* the comma-joined stored representation.
C22_TagsRoundTrip ==
    [][(/\ IsIngest
        /\ last.before = <<>>
        /\ last.outcome = "returned"
        /\ collection # <<>>
        /\ last.args.tags # None
        /\ last'.op = "query"
        /\ last'.args.num_results >= 1)
       => /\ last'.outcome = "returned"
          /\ last'.query_results # <<>>
          /\ TagsOfResults(last'.query_results) = {Some(PyList(Value(last.args.tags)))}]_vars

\* what the store answers for the query the last call made
StoreAnswer ==
    VectorStoreQuery(last.before, EmbedOne(last.args.query_text),
                     last.args.num_results).formatted_results

\* C23: RAG.query returns the store's matches in the store's order, numbered
\* 1, 2, ... in that order, exactly min(num_results, stored records) of
\* them, without an error when fewer records exist.
C23_StoreOrderAndCount ==
    (IsQuery /\ last.args.num_results >= 1) =>
        /\ last.outcome = "returned"
        /\ Len(last.query_results) = Min(last.args.num_results, Len(last.before))
        /\ \A i \in 1..Len(last.query_results) :
               /\ last.query_results[i].result_number = i
               /\ last.query_results[i].document = StoreAnswer[i].document
               /\ last.query_results[i].distance = StoreAnswer[i].distance

\* C24: RAG.query on an empty collection returns an empty list and never
\* raises, for any query text and any num_results.
C24_EmptyCollectionQuery ==
    (IsQuery /\ last.before = <<>>) =>
        /\ last.outcome = "returned"
        /\ last.query_results = <<>>

\* C25: after reset_vector_store the collection is empty, a query that
\* follows returns an empty list whatever was ingested before, and an ingest
\* that follows stores its chunks again.
C25_ResetEmpties ==
    [][last.op = "reset_vector_store" =>
          /\ collection = <<>>
          /\ last'.op = "query" =>
                 /\ last'.outcome = "returned"
                 /\ last'.query_results = <<>>
          /\ (last'.op = "ingest_string" /\ last'.outcome = "returned") =>
                 Len(collection') = Len(last'.chunks)]_vars

----------------------------------------------------------------------------
(* The tools of rag_mcp.py as coroutines on one event loop.  The loop runs  *)
(* one coroutine at a time and takes another only when the running one     *)
(* suspends at an await or ends.  A position "inside" is within the call of *)
(* the RAG method: after it read the collection, before it wrote it.        *)

Tools == {"ingest_file", "ingest_text", "query", "reset_vector_store"}

Task(tool) ==
    [tool |-> tool, pc |-> "pending", seen |-> <<>>, found |-> <<>>,
     outcome |-> "none", result |-> "none", answer |-> "none"]

\* the RAG method the tool calls: rag_mcp.py lines 46-51, 91-97, 120, 154
ToolCall(tool, build, coll, now) ==
    CASE tool = "ingest_file" ->
             IngestFileCall(build, coll, now, "notes.txt", None, 0, None)
      [] tool = "ingest_text" ->
             IngestStringCall(build, coll, now, <<"a">>, None, 0, None, None)
      [] tool = "query" ->
             [outcome |-> QueryCall(coll, <<"a">>, 1).outcome, collection |-> coll]
      [] tool = "reset_vector_store" ->
             [outcome |-> "returned", collection |-> reset(coll)]

\* what the RAG method returns: a list of results from query, None otherwise
ResultOf(tool) == IF tool = "query" THEN "list" ELSE "NoneType"

\* await suspends the coroutine on an awaitable and raises TypeError on
\* anything else
Awaitable(result) == result \in {"coroutine", "Future", "Task"}

\* the coroutine has not begun, has ended, or is suspended at its await
Released_Preemptive(task) == TRUE

Released(task) ==
    \/ task.pc \in {"pending", "done"}
    \/ task.pc = "awaiting" /\ Awaitable(task.result)

\* the event loop may run task t
Holds(t) == \A u \in DOMAIN tasks \ {t} : Released(tasks[u])

ToolsInit ==
    /\ chunker = ChunkerIdle
    /\ collection \in Persisted
    /\ clock = 0
    /\ last = NoCall
    /\ files = FilesAtStart
    /\ batch = NoBatch
    /\ tasks \in [1..MaxTasks -> {Task(tool) : tool \in Tools}]

\* the loop starts the coroutine, which runs into the RAG method
ToolEnter ==
    /\ \E t \in DOMAIN tasks :
           /\ tasks[t].pc = "pending"
           /\ Holds(t)
           /\ tasks' = [tasks EXCEPT ![t].pc = "inside", ![t].seen = collection]
    /\ UNCHANGED <<chunker, collection, clock, last, files, batch>>

\* the RAG method runs to its end; an exception goes to the tool's handler
ToolReturn ==
    /\ \E t \in DOMAIN tasks, build \in Builds(collection) :
           /\ tasks[t].pc = "inside"
           /\ Holds(t)
           /\ LET did == ToolCall(tasks[t].tool, build, collection, clock)
              IN  /\ collection' = did.collection
                  /\ tasks' = [tasks EXCEPT
                                  ![t].found = collection,
                                  ![t].outcome = did.outcome,
                                  ![t].result = ResultOf(tasks[t].tool),
                                  ![t].pc = IF did.outcome = "returned"
                                            THEN "awaiting" ELSE "done",
                                  ![t].answer = IF did.outcome = "returned"
                                                THEN "none" ELSE did.outcome]
    /\ clock' = Min(clock + 1, MaxClock)
    /\ UNCHANGED <<chunker, last, files, batch>>

\* await <result>
ToolAwait ==
    /\ \E t \in DOMAIN tasks :
           /\ tasks[t].pc = "awaiting"
           /\ Holds(t)
           /\ tasks' = [tasks EXCEPT
                           ![t].pc = "done",
                           ![t].answer = IF Awaitable(tasks[t].result)
                                         THEN "returned" ELSE "TypeError"]
    /\ UNCHANGED <<chunker, collection, clock, last, files, batch>>

ToolsNext == ToolEnter \/ ToolReturn \/ ToolAwait

SpecTools == ToolsInit /\ [][ToolsNext]_vars

Inside(t) == tasks[t].pc = "inside"

\* C29: a tool call never yields inside its chunk-embed-store or
\* embed-search sequence: while one call is inside the sequence no other
\* call is, the collection is the one the call read, and the call writes to
\* the collection it read.
C29_ToolsAtomic ==
    \A t \in DOMAIN tasks :
        /\ Inside(t) =>
               /\ tasks[t].seen = collection
               /\ \A u \in DOMAIN tasks \ {t} : ~Inside(u)
        /\ tasks[t].pc \in {"awaiting", "done"} => tasks[t].found = tasks[t].seen

\* of two calls issued together one has run to its end and written the
\* collection, the other is inside its sequence
C29_Witness ==
    /\ tasks # NoTasks
    /\ tasks[1].tool = "ingest_text" /\ tasks[1].pc = "done"
    /\ tasks[1].found # collection
    /\ tasks[2].tool = "reset_vector_store" /\ Inside(2)

====
